---- MODULE Spec2Model ----
(***************************************************************************)
(* smartpool: a pool of reusable connections (smartpool.py) and the MySQL  *)
(* connection class with its scoped transaction helper (poolmysql.py).     *)
(*                                                                         *)
(* Spec   : ConnectionPool.get / _clean / _pop_idle, the lazy proxy and    *)
(*          the thread-local binding, run by NumUnits threads.  Every      *)
(*          statement that is executed outside "with lock" is a step of    *)
(*          its own, so that threads interleave as the code allows.        *)
(* SpecTx : the transaction() context manager on one connection.           *)
(* SpecScan : the critical section of one get() on pools of every shape.   *)
(* SpecLock : lock, release, make_reusable and lock_str on one connection. *)
(***************************************************************************)
EXTENDS Integers, Sequences, FiniteSets, TLC

\* ---------------------------------------------------------------- bounds
NumUnits == 2          \* threads that use the pool
MaxCfg   == 2          \* largest maxnum a pool is constructed with
MaxAge   == 2          \* idle seconds are counted up to this value
MaxScopes == 2         \* transaction scopes run one after another (SpecTx)
NumKeys  == 2          \* lock keys (SpecLock)
MaxLocks == 3          \* longest list _locks (SpecLock)
ScanPool == 3          \* largest pool a scan starts from (SpecScan)
ScanAge  == 3          \* largest idle time a scan starts from (SpecScan)

\* ------------------------------------------------------ program constants
MaxIdle == 1           \* maxidle, in the model's seconds
CleanInterval == 1     \* clean_interval

Units  == 1..NumUnits
MaxRes == MaxCfg + NumUnits
ResIds == 1..MaxRes
Keys   == 1..NumKeys

None == 0              \* Python None
Dead == -1             \* a weakref proxy whose referent was destroyed

VARIABLES
    minnum, maxnum,     \* ConnectionPool._min, ._max
    pool,               \* ConnectionPool._pool: list of connection objects
    clean_counter,      \* ConnectionPool._clean_counter
    res,                \* the connection objects, by identity
    lockOwner,          \* owner of the module's RLock, None when free
    found,              \* _clean's local list "found"
    pc,                 \* position of each thread
    mode,               \* who called get(): "direct" (getconn) or "lazy"
    gconn,              \* get()'s local variable conn
    handle,             \* the proxy a thread holds: getconn's result, or
                        \* wrap_func's local variable conn
    binding,            \* Local: local["conn"] of each thread
    raised,             \* what the capability call of the last proxy call raised
    err,                \* what the last call of the thread raised to its caller
    \* ---- SpecTx
    tpc, finished, bodyErr, exitErr, txOut, nBegin, nRollback, nCommit, nScopes,
    \* ---- observers of Spec
    usedRead,           \* what the last read of ConnectionPool.used gave
    callNo,             \* get() calls that entered the lock since construction
                        \* or since the call that ran the last cleanup pass
    hadPass,            \* a cleanup pass has run
    \* ---- SpecLock
    multi,              \* the server keeps several named locks per session
    lpc,                \* position in lock_str
    lkey,               \* lock_str's argument s
    locked,             \* lock_str's local variable locked
    acq,                \* how the acquisition of the scope ended
    nRelease,           \* release calls lock_str made in the scope
    lop                 \* the last call made on the connection and its result

poolVars == <<minnum, maxnum, pool, clean_counter, res, lockOwner, found,
              pc, mode, gconn, handle, binding, raised, err>>
txVars == <<tpc, finished, bodyErr, exitErr, txOut, nBegin, nRollback, nCommit,
            nScopes>>
obsVars == <<usedRead, callNo, hadPass>>
lkVars == <<multi, lpc, lkey, locked, acq, nRelease, lop>>
vars == <<poolVars, txVars, obsVars, lkVars>>

\* ------------------------------------------------------ connection objects
\* A MySQLdbConnection: linked is "_conn is not None", age is the time since
\* _last_active_time (-1 while _last_active_time is None).
\* held is the server's side of _locks: how often the session of this link
\* holds each named lock.
NoLocks == [k \in Keys |-> 0]
NewConn == [live |-> TRUE, linked |-> FALSE, in_trans |-> FALSE,
            locks |-> <<>>, age |-> -1, held |-> NoLocks]
NoObj == [live |-> FALSE, linked |-> FALSE, in_trans |-> FALSE,
          locks |-> <<>>, age |-> -1, held |-> NoLocks]

HasLock(c) == Len(c.locks) > 0
Reusable(c) == ~(c.in_trans \/ HasLock(c))
ConnIdle(c) == IF c.age = -1 THEN 0 ELSE c.age

\* connect(): @active_time stamps the time before and after MySQLdb.connect;
\* when MySQLdb.connect raises, _conn keeps its old value.  A new link is a
\* new session: it holds no named lock.
Connect(c, ok) ==
    [c |-> [c EXCEPT !.age = 0, !.linked = IF ok THEN TRUE ELSE c.linked,
                     !.held = IF ok THEN NoLocks ELSE c.held],
     e |-> IF ok THEN "none" ELSE "OperationalError"]

\* close(): drops the link, and with it the session's named locks.
Close(c) == [c EXCEPT !.linked = FALSE, !.held = NoLocks]

\* select / insert / execute: @ready connects an unlinked reusable
\* connection, @active_time stamps the time, the body uses self._conn.
Execute(c, cok, ok) ==
    LET r == IF ~c.linked /\ Reusable(c) THEN Connect(c, cok)
             ELSE [c |-> c, e |-> "none"]
    IN  IF r.e # "none" THEN r
        ELSE LET d == [r.c EXCEPT !.age = 0]
             IN  IF ~d.linked THEN [c |-> d, e |-> "AttributeError"]
                 ELSE IF ok THEN [c |-> d, e |-> "none"]
                 ELSE [c |-> d, e |-> "OperationalError"]

Begin(c, cok, ok) ==
    IF c.in_trans THEN [c |-> c, e |-> "Exception"]
    ELSE LET r == Execute(c, cok, ok)
         IN  IF r.e # "none" THEN r
             ELSE [c |-> [r.c EXCEPT !.in_trans = TRUE], e |-> "none"]

Rollback(c, cok, ok) ==
    LET r == Execute(c, cok, ok)
    IN  IF r.e # "none" THEN r
        ELSE [c |-> [r.c EXCEPT !.in_trans = FALSE], e |-> "none"]

Commit(c, cok, ok) ==
    LET r == Execute(c, cok, ok)
    IN  IF r.e # "none" THEN r
        ELSE [c |-> [r.c EXCEPT !.in_trans = FALSE], e |-> "none"]

\* list.remove(k): the list without its first k
RECURSIVE RemoveFirst(_, _)
RemoveFirst(s, k) ==
    IF s = <<>> THEN <<>>
    ELSE IF Head(s) = k THEN Tail(s)
    ELSE <<Head(s)>> \o RemoveFirst(Tail(s), k)

\* GET_LOCK on the server: granted when the session holds the key already
\* or no other session holds it (free)
Granted(h, k, free) == h[k] > 0 \/ free

\* the session's locks after GET_LOCK: a server that keeps several locks
\* per session counts the key once more; one that keeps a single lock per
\* session releases what the session held before
HeldAfterGet(h, k, g) ==
    IF multi THEN (IF g THEN [h EXCEPT ![k] = @ + 1] ELSE h)
    ELSE [j \in Keys |-> IF g /\ j = k THEN 1 ELSE 0]

\* lock(key): SELECT GET_LOCK, and the key appended to _locks when granted
Lock(c, k, free, cok, ok) ==
    LET r == Execute(c, cok, ok)
    IN  IF r.e # "none" THEN [c |-> r.c, e |-> r.e, ret |-> FALSE]
        ELSE LET g == Granted(r.c.held, k, free)
             IN  [c |-> [r.c EXCEPT !.held = HeldAfterGet(@, k, g),
                                    !.locks = IF g THEN Append(@, k) ELSE @],
                  e |-> "none", ret |-> g]

\* release(key): SELECT RELEASE_LOCK is 1 when the session held the key; the
\* key is then removed from _locks once
Release(c, k, cok, ok) ==
    LET r == Execute(c, cok, ok)
    IN  IF r.e # "none" THEN [c |-> r.c, e |-> r.e, ret |-> FALSE]
        ELSE LET released == r.c.held[k] > 0
             IN  [c |-> [r.c EXCEPT
                           !.held = IF released THEN [@ EXCEPT ![k] = @ - 1] ELSE @,
                           !.locks = IF released /\ \E i \in 1..Len(@) : @[i] = k
                                     THEN RemoveFirst(@, k) ELSE @],
                  e |-> "none", ret |-> released]

\* make_reusable, lines 199-200: "for key in self._locks: self.release(key)".
\* The loop reads _locks by position while release removes from it; rel is
\* whether every release returned True.
RECURSIVE ReleaseLoop(_, _, _, _)
ReleaseLoop(c, i, cok, ok) ==
    IF i > Len(c.locks) THEN [c |-> c, e |-> "none", rel |-> TRUE]
    ELSE LET x == Release(c, c.locks[i], cok, ok)
         IN  IF x.e # "none" THEN [c |-> x.c, e |-> x.e, rel |-> FALSE]
             ELSE LET y == ReleaseLoop(x.c, i + 1, cok, ok)
                  IN  [c |-> y.c, e |-> y.e, rel |-> x.ret /\ y.rel]

\* make_reusable(): rollback an open transaction, release the lock keys;
\* rel is whether every release returned True
MakeReusableRel(c, cok, ok) ==
    LET a == IF c.in_trans THEN Rollback(c, cok, ok) ELSE [c |-> c, e |-> "none"]
    IN  IF a.e # "none" THEN [c |-> a.c, e |-> a.e, rel |-> FALSE]
        ELSE LET b == IF HasLock(a.c) THEN ReleaseLoop(a.c, 1, cok, ok)
                      ELSE [c |-> a.c, e |-> "none", rel |-> TRUE]
             IN  b

MakeReusable(c, cok, ok) ==
    LET x == MakeReusableRel(c, cok, ok) IN [c |-> x.c, e |-> x.e]

OpNames == {"select", "begin", "commit", "rollback"}

\* getattr(conn, name)(*args) on a live connection
CallOn(c, name, cok, ok) ==
    CASE name = "select"   -> Execute(c, cok, ok)
      [] name = "begin"    -> Begin(c, cok, ok)
      [] name = "commit"   -> Commit(c, cok, ok)
      [] name = "rollback" -> Rollback(c, cok, ok)


\* ------------------------------------------------------------------ pool
\* weakref.getweakrefcount(conn): the proxies of one object are shared, so
\* the count is 1 while any thread keeps the proxy and 0 otherwise.  In
\* get(), conn is the object itself until line 282 makes the proxy.
HoldsProxy(u, r) ==
    \/ handle[u] = r
    \/ binding[u] = r
    \/ gconn[u] = r /\ pc[u] \in {"get_ping", "get_connect"}

WeakRefCount(r) == IF \E u \in Units : HoldsProxy(u, r) THEN 1 ELSE 0

total == Len(pool)

idle == Cardinality({i \in 1..Len(pool) : WeakRefCount(pool[i]) < 1})

\* sorted(seq, key=idle): stable, ascending
RECURSIVE InsertAsc(_, _)
InsertAsc(x, s) ==
    IF s = <<>> THEN <<x>>
    ELSE IF ConnIdle(res[Head(s)]) <= ConnIdle(res[x])
         THEN <<Head(s)>> \o InsertAsc(x, Tail(s))
         ELSE <<x>> \o s

\* sorted(seq, key=idle, reverse=True): stable, descending
RECURSIVE InsertDesc(_, _)
InsertDesc(x, s) ==
    IF s = <<>> THEN <<x>>
    ELSE IF ConnIdle(res[Head(s)]) >= ConnIdle(res[x])
         THEN <<Head(s)>> \o InsertDesc(x, Tail(s))
         ELSE <<x>> \o s

RECURSIVE SortAsc(_, _)
SortAsc(s, acc) ==
    IF s = <<>> THEN acc ELSE SortAsc(Tail(s), InsertAsc(Head(s), acc))

RECURSIVE SortDesc(_, _)
SortDesc(s, acc) ==
    IF s = <<>> THEN acc ELSE SortDesc(Tail(s), InsertDesc(Head(s), acc))

busy_array == SortAsc(pool, <<>>)

\* mutant of idle_array: the sort without reverse=True
idle_arrayAsc == SortAsc(pool, <<>>)

idle_array == SortDesc(pool, <<>>)

\* the loop of _clean, lines 221-225
RECURSIVE CleanScan(_, _, _)
CleanScan(arr, limit, acc) ==
    IF arr = <<>> THEN acc
    ELSE IF ConnIdle(res[Head(arr)]) > MaxIdle
         THEN LET acc2 == Append(acc, Head(arr))
              IN  IF Len(acc2) >= limit THEN acc2
                  ELSE CleanScan(Tail(arr), limit, acc2)
         ELSE CleanScan(Tail(arr), limit, acc)

\* mutant of CleanFound: the test of line 212 left out
CleanFoundNoGuard ==
    IF idle < 1 THEN <<>>
    ELSE CleanScan(idle_array, total - minnum, <<>>)

\* what _clean collects in found, lines 212-229
CleanFound ==
    IF total <= minnum THEN <<>>
    ELSE IF idle < 1 THEN <<>>
    ELSE CleanScan(idle_array, total - minnum, <<>>)

\* _pop_idle: the first connection of busy_array without a weak reference
RECURSIVE FirstIdle(_)
FirstIdle(arr) ==
    IF arr = <<>> THEN None
    ELSE IF WeakRefCount(Head(arr)) > 0 THEN FirstIdle(Tail(arr))
    ELSE Head(arr)

\* mutant of pop_idle: the scan runs over the stalest-first array
pop_idleStalest == FirstIdle(idle_array)

pop_idle == FirstIdle(busy_array)

SeqSet(s) == {s[i] : i \in 1..Len(s)}

RECURSIVE RemoveAll(_, _)
RemoveAll(s, gone) ==
    IF s = <<>> THEN <<>>
    ELSE IF Head(s) \in gone THEN RemoveAll(Tail(s), gone)
    ELSE <<Head(s)>> \o RemoveAll(Tail(s), gone)

\* every proxy of a destroyed object is dead
Kill(f, gone) == [u \in Units |-> IF f[u] \in gone THEN Dead ELSE f[u]]

FreeId == CHOOSE r \in ResIds : ~res[r].live /\ \A q \in ResIds : ~res[q].live => r <= q


\* ----------------------------------------------------------------- state
TxInit ==
    /\ tpc = "out" /\ finished = FALSE /\ bodyErr = "none" /\ exitErr = "none"
    /\ txOut = "none"
    /\ nBegin = 0 /\ nRollback = 0 /\ nCommit = 0 /\ nScopes = 0

NoOp == [op |-> "none", key |-> 0, ret |-> FALSE, e |-> "none"]

NotRead == [e |-> "unread", val |-> 0]

ObsInit == usedRead = NotRead /\ callNo = 0 /\ hadPass = FALSE

LkInit ==
    /\ lpc = "out" /\ lkey = 0 /\ locked = FALSE /\ acq = "none"
    /\ nRelease = 0 /\ lop = NoOp

\* ConnectionPool.__init__ and the first use of Local by each thread
Init ==
    /\ maxnum \in 1..MaxCfg
    /\ minnum \in 1..maxnum
    /\ pool = <<>>
    /\ clean_counter = 0
    /\ res = [r \in ResIds |-> NoObj]
    /\ lockOwner = None
    /\ found = <<>>
    /\ pc = [u \in Units |-> "idle"]
    /\ mode = [u \in Units |-> "none"]
    /\ gconn = [u \in Units |-> None]
    /\ handle = [u \in Units |-> None]
    /\ binding = [u \in Units |-> None]
    /\ raised = [u \in Units |-> "none"]
    /\ err = [u \in Units |-> "none"]
    /\ TxInit /\ ObsInit /\ LkInit /\ multi = TRUE

\* get() returns r or raises e: to the caller of getconn, or to wrap_func,
\* which raises EmptyPoolError on None (lines 300-302) and else goes on to
\* the capability call.
GetReturn(u, r, e) ==
    /\ gconn' = [gconn EXCEPT ![u] = None]
    /\ mode' = [mode EXCEPT ![u] = "none"]
    /\ IF e # "none"
       THEN /\ handle' = [handle EXCEPT ![u] = None]
            /\ err' = [err EXCEPT ![u] = e]
            /\ pc' = [pc EXCEPT ![u] = "idle"]
       ELSE IF mode[u] = "lazy" /\ r = None
       THEN /\ handle' = [handle EXCEPT ![u] = None]
            /\ err' = [err EXCEPT ![u] = "EmptyPoolError"]
            /\ pc' = [pc EXCEPT ![u] = "idle"]
       ELSE /\ handle' = [handle EXCEPT ![u] = r]
            /\ err' = [err EXCEPT ![u] = "none"]
            /\ pc' = [pc EXCEPT ![u] = IF mode[u] = "lazy" THEN "lazy_call" ELSE "idle"]

\* getconn(db_name), called by the application
GetCall(u) ==
    /\ pc[u] = "idle" /\ handle[u] = None /\ binding[u] = None
    /\ pc' = [pc EXCEPT ![u] = "get_lock"]
    /\ mode' = [mode EXCEPT ![u] = "direct"]
    /\ err' = [err EXCEPT ![u] = "none"]
    /\ raised' = [raised EXCEPT ![u] = "none"]
    /\ UNCHANGED <<minnum, maxnum, pool, clean_counter, res, lockOwner, found,
                   gconn, handle, binding, txVars, obsVars, lkVars>>

\* wrap_func, lines 298-300: use the bound connection or call getconn
ProxyCall(u) ==
    /\ pc[u] = "idle" /\ handle[u] = None
    /\ err' = [err EXCEPT ![u] = "none"]
    /\ raised' = [raised EXCEPT ![u] = "none"]
    /\ IF binding[u] # None
       THEN /\ handle' = [handle EXCEPT ![u] = binding[u]]
            /\ pc' = [pc EXCEPT ![u] = "lazy_call"]
            /\ mode' = mode
       ELSE /\ handle' = handle
            /\ pc' = [pc EXCEPT ![u] = "get_lock"]
            /\ mode' = [mode EXCEPT ![u] = "lazy"]
    /\ UNCHANGED <<minnum, maxnum, pool, clean_counter, res, lockOwner, found,
                   gconn, binding, txVars, obsVars, lkVars>>

\* get, line 254: with lock
GetLock(u) ==
    /\ pc[u] = "get_lock" /\ lockOwner = None
    /\ lockOwner' = u
    /\ pc' = [pc EXCEPT ![u] = "get_clean"]
    /\ UNCHANGED <<minnum, maxnum, pool, clean_counter, res, found, mode,
                   gconn, handle, binding, raised, err, txVars, obsVars, lkVars>>

\* mutant of CleanDue: the test of line 256 written with >
CleanDueGt == clean_counter > CleanInterval

\* get, line 256
CleanDue == clean_counter >= CleanInterval

\* get, lines 256-257, and _clean up to the removal from the pool (208-233)
GetClean(u) ==
    /\ pc[u] = "get_clean"
    /\ callNo' = IF CleanDue THEN 0 ELSE callNo + 1
    /\ hadPass' = (hadPass \/ CleanDue)
    /\ IF CleanDue
       THEN /\ clean_counter' = 0
            /\ found' = CleanFound
            /\ pool' = RemoveAll(pool, SeqSet(CleanFound))
            /\ pc' = [pc EXCEPT ![u] = IF CleanFound # <<>> THEN "get_close"
                                       ELSE "get_pop"]
       ELSE /\ pc' = [pc EXCEPT ![u] = "get_pop"]
            /\ UNCHANGED <<clean_counter, found, pool>>
    /\ UNCHANGED <<minnum, maxnum, res, lockOwner, mode, gconn, handle,
                   binding, raised, err, txVars, usedRead, lkVars>>

\* an object a thread still names by a plain reference (get, lines 277-282)
\* outlives its removal from the pool
StrongHeld(r) == \E u \in Units : pc[u] = "get_proxy" /\ gconn[u] = r

\* _clean, lines 236-239: close what was found; when _clean returns, found
\* is dropped and the objects without another reference are destroyed
GetClose(u) ==
    /\ pc[u] = "get_close"
    /\ LET gone == {r \in SeqSet(found) : ~StrongHeld(r)}
       IN  /\ res' = [r \in ResIds |->
                        IF r \in gone THEN NoObj
                        ELSE IF r \in SeqSet(found) THEN Close(res[r])
                        ELSE res[r]]
           /\ handle' = Kill(handle, gone)
           /\ binding' = Kill(binding, gone)
           /\ gconn' = Kill(gconn, gone)
    /\ found' = <<>>
    /\ pc' = [pc EXCEPT ![u] = "get_pop"]
    /\ UNCHANGED <<minnum, maxnum, pool, clean_counter, lockOwner, mode,
                   raised, err, txVars, obsVars, lkVars>>

\* get, lines 259-263: count the call, pick an idle connection, leave the lock
GetPop(u) ==
    /\ pc[u] = "get_pop"
    /\ clean_counter' = clean_counter + 1
    /\ gconn' = [gconn EXCEPT ![u] = pop_idle]
    /\ lockOwner' = None
    /\ pc' = [pc EXCEPT ![u] = IF pop_idle # None THEN "get_ping" ELSE "get_check"]
    /\ UNCHANGED <<minnum, maxnum, pool, res, found, mode, handle, binding,
                   raised, err, txVars, obsVars, lkVars>>

\* what lines 267-271 do to the granted connection: ping() is False for an
\* unlinked connection and may fail for a linked one
Revive(c, pingok, cok, ok) ==
    IF ~(c.linked /\ pingok) THEN Connect(c, cok)
    ELSE IF ~Reusable(c) THEN MakeReusable(c, cok, ok)
    ELSE [c |-> c, e |-> "none"]

\* get, lines 266-274: an idle connection was found
GetPing(u) ==
    /\ pc[u] = "get_ping"
    /\ IF gconn[u] = Dead
       THEN /\ res' = res
            /\ GetReturn(u, None, "ReferenceError")
       ELSE \E pingok \in BOOLEAN, cok \in BOOLEAN, ok \in BOOLEAN :
              LET x == Revive(res[gconn[u]], pingok, cok, ok)
              IN  /\ res' = [res EXCEPT ![gconn[u]] = x.c]
                  /\ GetReturn(u, gconn[u], x.e)
    /\ UNCHANGED <<minnum, maxnum, pool, clean_counter, lockOwner, found,
                   binding, raised, txVars, obsVars, lkVars>>

\* mutant of CanCreate: the bound test of line 276 written with <=
CanCreateLe == total <= maxnum

\* get, line 276
CanCreate == total < maxnum

\* get, lines 276 and 290: no idle connection was found
GetCheck(u) ==
    /\ pc[u] = "get_check"
    /\ IF CanCreate
       THEN /\ pc' = [pc EXCEPT ![u] = "get_append"]
            /\ UNCHANGED <<mode, gconn, handle, err>>
       ELSE GetReturn(u, None, "none")
    /\ UNCHANGED <<minnum, maxnum, pool, clean_counter, res, lockOwner, found,
                   binding, raised, txVars, obsVars, lkVars>>

\* get, lines 277-280: construct a connection and append it to the pool
GetAppend(u) ==
    /\ pc[u] = "get_append"
    /\ \E r \in ResIds : ~res[r].live
    /\ res' = [res EXCEPT ![FreeId] = NewConn]
    /\ pool' = Append(pool, FreeId)
    /\ gconn' = [gconn EXCEPT ![u] = FreeId]
    /\ pc' = [pc EXCEPT ![u] = "get_proxy"]
    /\ UNCHANGED <<minnum, maxnum, clean_counter, lockOwner, found, mode,
                   handle, binding, raised, err, txVars, obsVars, lkVars>>

\* get, line 282: conn = weakref.proxy(conn).  The plain reference is given
\* up here; an object that was removed from the pool meanwhile is destroyed.
GetProxy(u) ==
    /\ pc[u] = "get_proxy"
    /\ pc' = [pc EXCEPT ![u] = "get_connect"]
    /\ IF gconn[u] \in SeqSet(pool)
       THEN UNCHANGED <<res, gconn, handle, binding>>
       ELSE /\ res' = [res EXCEPT ![gconn[u]] = NoObj]
            /\ gconn' = Kill(gconn, {gconn[u]})
            /\ handle' = Kill(handle, {gconn[u]})
            /\ binding' = Kill(binding, {gconn[u]})
    /\ UNCHANGED <<minnum, maxnum, pool, clean_counter, lockOwner, found,
                   mode, raised, err, txVars, obsVars, lkVars>>

\* get, lines 283-288: connect the new connection and return it
GetConnect(u) ==
    /\ pc[u] = "get_connect"
    /\ IF gconn[u] = Dead
       THEN /\ res' = res
            /\ GetReturn(u, None, "ReferenceError")
       ELSE \E cok \in BOOLEAN :
              LET x == Connect(res[gconn[u]], cok)
              IN  /\ res' = [res EXCEPT ![gconn[u]] = x.c]
                  /\ GetReturn(u, gconn[u], x.e)
    /\ UNCHANGED <<minnum, maxnum, pool, clean_counter, lockOwner, found,
                   binding, raised, txVars, obsVars, lkVars>>

\* mutant of BindingAfter: the finally block always pops the binding
BindingAlwaysCleared(c, h) == None

\* wrap_func, lines 307-311: the binding after the call
BindingAfter(c, h) == IF Reusable(c) THEN None ELSE h

\* wrap_func, lines 304-311: the capability call and the finally block
LazyCall(u) ==
    /\ pc[u] = "lazy_call"
    /\ IF handle[u] = Dead
       THEN /\ raised' = [raised EXCEPT ![u] = "ReferenceError"]
            /\ err' = [err EXCEPT ![u] = "ReferenceError"]
            /\ UNCHANGED <<res, binding>>
       ELSE \E name \in OpNames, cok \in BOOLEAN, ok \in BOOLEAN :
              LET x == CallOn(res[handle[u]], name, cok, ok)
              IN  /\ res' = [res EXCEPT ![handle[u]] = x.c]
                  /\ raised' = [raised EXCEPT ![u] = x.e]
                  /\ err' = [err EXCEPT ![u] = x.e]
                  /\ binding' = [binding EXCEPT ![u] = BindingAfter(x.c, handle[u])]
    /\ handle' = [handle EXCEPT ![u] = None]
    /\ pc' = [pc EXCEPT ![u] = "idle"]
    /\ UNCHANGED <<minnum, maxnum, pool, clean_counter, lockOwner, found,
                   mode, gconn, txVars, obsVars, lkVars>>

\* the application calls a method on the proxy it got from getconn
DirectCall(u) ==
    /\ pc[u] = "idle" /\ handle[u] # None
    /\ IF handle[u] = Dead
       THEN /\ err' = [err EXCEPT ![u] = "ReferenceError"]
            /\ res' = res
       ELSE \E name \in OpNames, cok \in BOOLEAN, ok \in BOOLEAN :
              LET x == CallOn(res[handle[u]], name, cok, ok)
              IN  /\ res' = [res EXCEPT ![handle[u]] = x.c]
                  /\ err' = [err EXCEPT ![u] = x.e]
    /\ UNCHANGED <<minnum, maxnum, pool, clean_counter, lockOwner, found, pc,
                   mode, gconn, handle, binding, raised, txVars, obsVars, lkVars>>

\* the application drops the proxy it got from getconn
Drop(u) ==
    /\ pc[u] = "idle" /\ handle[u] # None
    /\ handle' = [handle EXCEPT ![u] = None]
    /\ UNCHANGED <<minnum, maxnum, pool, clean_counter, res, lockOwner, found,
                   pc, mode, gconn, binding, raised, err, txVars, obsVars, lkVars>>

\* a thread ends: its frames go, Local._storage keeps its entry
UnitEnd(u) ==
    /\ pc[u] = "idle"
    /\ pc' = [pc EXCEPT ![u] = "ended"]
    /\ handle' = [handle EXCEPT ![u] = None]
    /\ UNCHANGED <<minnum, maxnum, pool, clean_counter, res, lockOwner, found,
                   mode, gconn, binding, raised, err, txVars, obsVars, lkVars>>

\* ConnectionPool.used, lines 202-204: self.deep - self.idle.  The class
\* has no attribute deep, so the read raises.
used == [e |-> "AttributeError", val |-> 0]

\* the application reads pool.used
ReadUsed(u) ==
    /\ pc[u] = "idle" /\ usedRead = NotRead
    /\ usedRead' = used
    /\ UNCHANGED <<poolVars, txVars, callNo, hadPass, lkVars>>

\* a second passes: datetime.now() - _last_active_time grows
Tick ==
    /\ \E r \in ResIds : res[r].live /\ res[r].age >= 0 /\ res[r].age < MaxAge
    /\ res' = [r \in ResIds |->
                 IF res[r].live /\ res[r].age >= 0 /\ res[r].age < MaxAge
                 THEN [res[r] EXCEPT !.age = @ + 1] ELSE res[r]]
    /\ UNCHANGED <<minnum, maxnum, pool, clean_counter, lockOwner, found, pc,
                   mode, gconn, handle, binding, raised, err, txVars, obsVars, lkVars>>

Next ==
    \/ \E u \in Units : GetCall(u)
    \/ \E u \in Units : ProxyCall(u)
    \/ \E u \in Units : GetLock(u)
    \/ \E u \in Units : GetClean(u)
    \/ \E u \in Units : GetClose(u)
    \/ \E u \in Units : GetPop(u)
    \/ \E u \in Units : GetPing(u)
    \/ \E u \in Units : GetCheck(u)
    \/ \E u \in Units : GetAppend(u)
    \/ \E u \in Units : GetProxy(u)
    \/ \E u \in Units : GetConnect(u)
    \/ \E u \in Units : LazyCall(u)
    \/ \E u \in Units : DirectCall(u)
    \/ \E u \in Units : Drop(u)
    \/ \E u \in Units : UnitEnd(u)
    \/ \E u \in Units : ReadUsed(u)
    \/ Tick

Spec == Init /\ [][Next]_vars

TypeOK ==
    /\ pool \in Seq(ResIds)
    /\ \A r \in SeqSet(pool) : res[r].live
    /\ lockOwner \in Units \cup {None}
    /\ clean_counter \in 0..CleanInterval


\* ---------------------------------------------------------------- claims
Min2(a, b) == IF a <= b THEN a ELSE b

\* the connections a thread holds: the proxy get() returned to it, or the
\* one bound to it
Held(u) == {handle[u], binding[u]} \cap ResIds

CheckedOut(r) == WeakRefCount(r) > 0

\* thread u completes a cleanup pass in this step
CleanPass(u) ==
    /\ pc[u] = "get_clean" /\ pc'[u] # "get_clean"
    /\ clean_counter >= CleanInterval

\* C1: in every reachable state the pool holds between 0 and max
\* connections, whatever the interleaving of concurrent get() calls.
C1_TotalWithinMax == 0 <= total /\ total <= maxnum

\* C2: no two threads hold the same connection at the same time.
C2_NoSharedResource ==
    \A u \in Units, v \in Units : u # v => Held(u) \cap Held(v) = {}

\* C3: a cleanup pass never removes a connection that is checked-out.
C3_NoEvictCheckedOut ==
    [][\A r \in SeqSet(pool) : CheckedOut(r) => r \in SeqSet(pool')]_vars


\* the pool is exhausted: total == max and no connection is idle
Exhausted == total = maxnum /\ idle = 0

\* C4: on an exhausted pool every step of get() leaves the pool as it is and
\* finds nothing, line 276 returns None at once (no wait for a release), and
\* a proxy call of an unbound thread ends with EmptyPoolError and no binding.
C4_ExhaustedReturnsNone ==
    [][\A u \in Units :
         (Exhausted /\ pc[u] \in {"get_clean", "get_pop", "get_check"}
                    /\ pc'[u] # pc[u])
         => /\ pool' = pool
            /\ gconn'[u] = None
            /\ pc[u] = "get_clean" => pc'[u] = "get_pop"
            /\ pc[u] = "get_pop" => pc'[u] = "get_check"
            /\ pc[u] = "get_check" =>
                 /\ pc'[u] = "idle" /\ handle'[u] = None
                 /\ mode[u] = "direct" => err'[u] = "none"
                 /\ mode[u] = "lazy" =>
                      err'[u] = "EmptyPoolError" /\ binding'[u] = None]_vars

\* C4 witness: a proxy call has failed with EmptyPoolError on an exhausted pool.
C4_Witness ==
    \E u \in Units : /\ pc[u] = "idle" /\ err[u] = "EmptyPoolError"
                     /\ binding[u] = None /\ Exhausted

\* C5 as stated: after any cleanup pass, total >= min.
C5_Original ==
    [][\A u \in Units : CleanPass(u) => Len(pool') >= minnum]_vars

\* C5 as amended: a cleanup pass never brings total below min; one that
\* starts with total <= min removes nothing.
C5_CleanKeepsMin ==
    [][\A u \in Units : CleanPass(u) =>
         /\ total >= minnum => Len(pool') >= minnum
         /\ total <= minnum => pool' = pool]_vars

\* C5 witness: a cleanup pass has removed connections and left min of them.
C5_Witness ==
    \E u \in Units : pc[u] = "get_close" /\ found # <<>> /\ total = minnum

\* idle connections over the idle threshold
StaleIdle == {i \in 1..Len(pool) :
                ~CheckedOut(pool[i]) /\ ConnIdle(res[pool[i]]) > MaxIdle}

\* C6: a cleanup pass that starts with total > min removes exactly the
\* smaller of (total - min) and the number of idle connections whose idle
\* time is over maxidle.
C6_CleanRemovesK ==
    [][\A u \in Units : (CleanPass(u) /\ total > minnum) =>
         Len(pool) - Len(pool') = Min2(total - minnum, Cardinality(StaleIdle))]_vars

\* C7: a proxy call of a bound thread goes to the bound connection, which is
\* alive, without a get(); the binding stays while the connection is not
\* reusable; when a call leaves it reusable the binding is cleared and the
\* connection is idle.
C7_PinnedUntilReusable ==
    [][\A u \in Units :
         (pc[u] = "lazy_call" /\ pc'[u] = "idle") =>
           /\ binding[u] # None => handle[u] = binding[u] /\ handle[u] \in ResIds
           /\ \A r \in ResIds : handle[u] = r =>
                IF Reusable(res'[r])
                THEN binding'[u] = None /\ ~CheckedOut(r)'
                ELSE binding'[u] = r]_vars

\* C8: a thread that has ended has no binding.
C8_EndedUnbound == \A u \in Units : pc[u] = "ended" => binding[u] = None

\* C9: when the capability call of a proxy call raises, the caller gets that
\* error, and the binding is kept iff the connection is not reusable.
C9_ErrorKeepsRule ==
    [][\A u \in Units :
         (pc[u] = "lazy_call" /\ pc'[u] = "idle" /\ handle[u] \in ResIds
            /\ raised'[u] # "none") =>
           /\ err'[u] = raised'[u]
           /\ binding'[u] = IF Reusable(res'[handle[u]]) THEN None ELSE handle[u]]_vars

\* C9 witness: a proxy call has raised and its connection, inside a
\* transaction, is still bound to the thread.
C9_Witness ==
    \E u \in Units : /\ pc[u] = "idle" /\ raised[u] # "none" /\ err[u] = raised[u]
                     /\ binding[u] \in ResIds /\ res[binding[u]].in_trans


\* C12: a thread that is closing, pinging or connecting a connection for
\* the pool does not hold the lock.
C12_NoIOUnderLock ==
    \A u \in Units :
        pc[u] \in {"get_close", "get_ping", "get_connect"} => lockOwner # u

\* C15: a read of used gives total - idle.
C15_UsedMetric ==
    [][usedRead' # usedRead =>
         usedRead'.e = "none" /\ usedRead'.val = total - idle]_vars

\* thread u passes lines 256-257 in this step
EnterCall(u) == pc[u] = "get_clean" /\ pc'[u] # "get_clean"

\* the counter was reset in this step
CounterReset == clean_counter > 0 /\ clean_counter' = 0

\* C16 as stated: the cleanup pass runs during call number cleanInterval,
\* counted from construction or from the call of the previous pass.
C16_Original ==
    [][\A u \in Units : EnterCall(u) =>
         (CounterReset <=> callNo + 1 = CleanInterval)]_vars

\* C16 as amended: each call adds one to the counter; a call that finds the
\* counter at cleanInterval or more runs the pass and resets the counter
\* before it adds its one.  The first pass runs during call number
\* cleanInterval + 1 from construction, each later pass during call number
\* cleanInterval from the call of the pass before.
C16_CleanEveryInterval ==
    [][\A u \in Units :
         /\ EnterCall(u) =>
              (CounterReset <=>
                 callNo + 1 = IF hadPass THEN CleanInterval ELSE CleanInterval + 1)
         /\ (pc[u] = "get_pop" /\ pc'[u] # "get_pop") =>
              clean_counter' = clean_counter + 1]_vars

\* C16 witness: the first cleanup pass has just run, in call number
\* cleanInterval + 1.
C16_Witness ==
    \E u \in Units : /\ pc[u] \in {"get_close", "get_pop"} /\ hadPass
                     /\ callNo = 0 /\ clean_counter = 0

\* C19: a handle that get() returns for an existing connection, which no
\* other thread holds or is creating, is reusable.
C19_GrantedReusable ==
    [][\A u \in Units, r \in ResIds :
         (/\ pc[u] = "get_ping" /\ pc'[u] # "get_ping" /\ handle'[u] = r
          /\ \A v \in Units \ {u} : ~HoldsProxy(v, r)
          /\ ~StrongHeld(r))
         => Reusable(res'[r])]_vars

\* C20: when connect() raises inside get(), the caller gets the error and no
\* handle, the connection is not checked-out afterwards, total <= max holds
\* and a get() that follows can grant a connection.
C20_ConnectFails ==
    [][\A u \in Units, r \in ResIds :
         (/\ pc[u] \in {"get_ping", "get_connect"} /\ gconn[u] = r
          /\ pc[u] = "get_ping" => (~res[r].linked \/ Reusable(res[r]))
          /\ pc'[u] = "idle" /\ err'[u] = "OperationalError")
         => /\ handle'[u] = None
            /\ ~CheckedOut(r)'
            /\ Len(pool') <= maxnum
            /\ (pop_idle # None)' \/ CanCreate']_vars

\* ------------------------------------------- one get() on a filled pool
\* SpecScan: the critical section of get() (lines 254-263) and the ping of
\* the connection it picked, on a pool of up to ScanPool connected
\* connections of any idle times, some of them held by other threads.
ScanUnit == 1

InitScan ==
    /\ maxnum = ScanPool
    /\ minnum \in 1..ScanPool
    /\ clean_counter \in 0..CleanInterval
    /\ \E n \in 1..ScanPool :
         /\ pool = [i \in 1..n |-> i]
         /\ \E ages \in [1..n -> 0..ScanAge] :
              res = [r \in ResIds |->
                       IF r <= n
                       THEN [NewConn EXCEPT !.linked = TRUE, !.age = ages[r]]
                       ELSE NoObj]
         /\ handle \in [Units -> {None} \cup 1..n]
    /\ handle[ScanUnit] = None
    /\ lockOwner = None
    /\ found = <<>>
    /\ pc = [u \in Units |-> IF u = ScanUnit THEN "get_lock" ELSE "idle"]
    /\ mode = [u \in Units |-> IF u = ScanUnit THEN "direct" ELSE "none"]
    /\ gconn = [u \in Units |-> None]
    /\ binding = [u \in Units |-> None]
    /\ raised = [u \in Units |-> "none"]
    /\ err = [u \in Units |-> "none"]
    /\ TxInit /\ ObsInit /\ LkInit /\ multi = TRUE

NextScan ==
    \/ \E u \in Units : GetLock(u)
    \/ \E u \in Units : GetClean(u)
    \/ \E u \in Units : GetClose(u)
    \/ \E u \in Units : GetPop(u)
    \/ \E u \in Units : GetPing(u)

SpecScan == InitScan /\ [][NextScan]_vars

\* the idle connections of the pool
IdleSet == {r \in SeqSet(pool) : ~CheckedOut(r)}

\* C17: with an idle connection in the pool, _pop_idle picks an idle
\* connection of the smallest idle time among the idle ones, whatever the
\* idle times of the checked-out ones; get() goes on to ping it, creates
\* nothing, and the handle it returns is this connection.
C17_GrantsWarmestIdle ==
    [][\A u \in Units :
         /\ (pc[u] = "get_pop" /\ pc'[u] # "get_pop" /\ idle >= 1) =>
              /\ pc'[u] = "get_ping" /\ pool' = pool
              /\ \E r \in IdleSet :
                   /\ gconn'[u] = r
                   /\ \A q \in IdleSet : ConnIdle(res[r]) <= ConnIdle(res[q])
         /\ (pc[u] = "get_ping" /\ pc'[u] # "get_ping") =>
              /\ pool' = pool
              /\ handle'[u] \in {None, gconn[u]}
              /\ err'[u] = "none" => handle'[u] = gconn[u]]_vars

\* C17 witness: the scan has picked an idle connection although a
\* checked-out one has a smaller idle time and another idle one a larger.
C17_Witness ==
    \E u \in Units, r \in ResIds :
        /\ pc[u] = "get_ping" /\ gconn[u] = r
        /\ \E q \in SeqSet(pool) \ {r} :
             /\ \E v \in Units \ {u} : handle[v] = q
             /\ ConnIdle(res[q]) < ConnIdle(res[r])
        /\ \E q \in SeqSet(pool) \ {r} :
             /\ \A v \in Units : ~HoldsProxy(v, q)
             /\ ConnIdle(res[q]) > ConnIdle(res[r])

\* the connections over the idle threshold
OverMax == {r \in SeqSet(pool) : ConnIdle(res[r]) > MaxIdle}

\* C18: every connection a cleanup pass evicts is over the threshold (one
\* whose idle time equals maxidle stays), and no connection that stays is
\* idle, over the threshold and staler than an evicted one.
C18_EvictsStalest ==
    [][\A u \in Units : CleanPass(u) =>
         \A r \in SeqSet(pool) \ SeqSet(pool') :
             /\ ConnIdle(res[r]) > MaxIdle
             /\ \A q \in SeqSet(pool') :
                  ~(/\ ~CheckedOut(q)
                    /\ ConnIdle(res[q]) > MaxIdle
                    /\ ConnIdle(res[q]) > ConnIdle(res[r]))]_vars

\* C18 witness: a pass has evicted fewer connections than were eligible: an
\* idle connection over the threshold is still in the pool.
C18_Witness ==
    \E u \in Units :
        /\ pc[u] = "get_close" /\ found # <<>>
        /\ \E q \in OverMax : ~CheckedOut(q)
        /\ \E q \in SeqSet(pool) : ConnIdle(res[q]) = MaxIdle


\* --------------------------------------------- lock keys and lock_str
\* SpecLock: one MySQLdbConnection used by one thread: lock, release, the
\* base operations, make_reusable and the lock_str scope, against a server
\* of either generation.
LkConn == 1

poolRest == <<minnum, maxnum, pool, clean_counter, lockOwner, found, pc, mode,
              gconn, handle, binding, raised, err>>

InitLock ==
    /\ maxnum = 1 /\ minnum = 1
    /\ pool = <<>>
    /\ clean_counter = 0
    /\ res = [r \in ResIds |-> IF r = LkConn THEN NewConn ELSE NoObj]
    /\ lockOwner = None
    /\ found = <<>>
    /\ pc = [u \in Units |-> "idle"]
    /\ mode = [u \in Units |-> "none"]
    /\ gconn = [u \in Units |-> None]
    /\ handle = [u \in Units |-> None]
    /\ binding = [u \in Units |-> None]
    /\ raised = [u \in Units |-> "none"]
    /\ err = [u \in Units |-> "none"]
    /\ TxInit /\ ObsInit /\ LkInit
    /\ multi \in BOOLEAN

\* conn.lock(k)
LkLock(k) ==
    /\ Len(res[LkConn].locks) < MaxLocks
    /\ \E free \in BOOLEAN, cok \in BOOLEAN, ok \in BOOLEAN :
         LET x == Lock(res[LkConn], k, free, cok, ok)
         IN  /\ res' = [res EXCEPT ![LkConn] = x.c]
             /\ lop' = [op |-> "lock", key |-> k, ret |-> x.ret, e |-> x.e]
    /\ UNCHANGED <<poolRest, txVars, obsVars, multi, lpc, lkey, locked, acq,
                   nRelease>>

\* conn.release(k)
LkRelease(k) ==
    /\ \E cok \in BOOLEAN, ok \in BOOLEAN :
         LET x == Release(res[LkConn], k, cok, ok)
         IN  /\ res' = [res EXCEPT ![LkConn] = x.c]
             /\ lop' = [op |-> "release", key |-> k, ret |-> x.ret, e |-> x.e]
    /\ UNCHANGED <<poolRest, txVars, obsVars, multi, lpc, lkey, locked, acq,
                   nRelease>>

\* conn.select / begin / commit / rollback
LkCall(name) ==
    /\ \E cok \in BOOLEAN, ok \in BOOLEAN :
         LET x == CallOn(res[LkConn], name, cok, ok)
         IN  /\ res' = [res EXCEPT ![LkConn] = x.c]
             /\ lop' = [op |-> name, key |-> 0, ret |-> FALSE, e |-> x.e]
    /\ UNCHANGED <<poolRest, txVars, obsVars, multi, lpc, lkey, locked, acq,
                   nRelease>>

\* conn.make_reusable(); ret is whether every release it made returned True
LkMakeReusable ==
    /\ \E cok \in BOOLEAN, ok \in BOOLEAN :
         LET x == MakeReusableRel(res[LkConn], cok, ok)
         IN  /\ res' = [res EXCEPT ![LkConn] = x.c]
             /\ lop' = [op |-> "make_reusable", key |-> 0, ret |-> x.rel,
                        e |-> x.e]
    /\ UNCHANGED <<poolRest, txVars, obsVars, multi, lpc, lkey, locked, acq,
                   nRelease>>

\* mutant of ExitReleases: the finally block releases whatever lock() gave
ExitReleasesAlways(l) == TRUE

\* lock_str, line 123: "if locked:"
ExitReleases(l) == l

\* lock_str, lines 116-119: locked = conn.lock(s, timeout), then the body is
\* entered; when lock raises, the finally block runs with locked = False
LsEnter(k) ==
    /\ lpc # "body"
    /\ Len(res[LkConn].locks) < MaxLocks
    /\ lkey' = k
    /\ \E free \in BOOLEAN, cok \in BOOLEAN, ok \in BOOLEAN :
         LET x == Lock(res[LkConn], k, free, cok, ok)
         IN  IF x.e # "none"
             THEN /\ locked' = FALSE
                  /\ acq' = "raised"
                  /\ lpc' = "left_exc"
                  /\ IF ExitReleases(FALSE)
                     THEN LET y == Release(x.c, k, cok, ok)
                          IN  /\ res' = [res EXCEPT ![LkConn] = y.c]
                              /\ nRelease' = 1
                              /\ lop' = [op |-> "release", key |-> k,
                                         ret |-> y.ret, e |-> y.e]
                     ELSE /\ res' = [res EXCEPT ![LkConn] = x.c]
                          /\ nRelease' = 0
                          /\ lop' = [op |-> "lock", key |-> k, ret |-> FALSE,
                                     e |-> x.e]
             ELSE /\ locked' = x.ret
                  /\ acq' = IF x.ret THEN "true" ELSE "false"
                  /\ lpc' = "body"
                  /\ res' = [res EXCEPT ![LkConn] = x.c]
                  /\ nRelease' = 0
                  /\ lop' = [op |-> "lock", key |-> k, ret |-> x.ret, e |-> "none"]
    /\ UNCHANGED <<poolRest, txVars, obsVars, multi>>

\* lock_str, lines 122-124: the body ends, normally or by an exception, and
\* the finally block runs
LsExit(exc) ==
    /\ lpc = "body"
    /\ lpc' = IF exc THEN "left_exc" ELSE "left_normal"
    /\ IF ExitReleases(locked)
       THEN \E cok \in BOOLEAN, ok \in BOOLEAN :
              LET y == Release(res[LkConn], lkey, cok, ok)
              IN  /\ res' = [res EXCEPT ![LkConn] = y.c]
                  /\ nRelease' = nRelease + 1
                  /\ lop' = [op |-> "release", key |-> lkey, ret |-> y.ret,
                             e |-> y.e]
       ELSE UNCHANGED <<res, nRelease, lop>>
    /\ UNCHANGED <<poolRest, txVars, obsVars, multi, lkey, locked, acq>>

NextLock ==
    \/ \E k \in Keys : LkLock(k)
    \/ \E k \in Keys : LkRelease(k)
    \/ \E name \in OpNames : LkCall(name)
    \/ LkMakeReusable
    \/ \E k \in Keys : LsEnter(k)
    \/ \E exc \in BOOLEAN : LsExit(exc)

SpecLock == InitLock /\ [][NextLock]_vars

\* the session of the connection holds no named lock
NothingHeld(c) == \A k \in Keys : c.held[k] = 0

\* C11: when make_reusable() has returned without error and every release
\* it issued returned True, the connection is reusable: not in a
\* transaction and with an empty list of lock keys.
C11_MakeReusableLeavesReusable ==
    (lop.op = "make_reusable" /\ lop.e = "none" /\ lop.ret)
        => Reusable(res[LkConn])

\* a release(k) call returns in this step
ReleaseStep(k) ==
    /\ lop'.op = "release" /\ lop'.key = k /\ lop'.e = "none"
    /\ lpc' = lpc \/ nRelease' # nRelease

\* C13: when the scope is left, normally or by an exception, lock_str has
\* called release(key) once if the acquisition returned true and not at all
\* if it returned false; when the acquisition raises, the scope is left with
\* no release call.
C13_ReleaseIffAcquired ==
    [][/\ (lpc = "body" /\ lpc' # "body") =>
            /\ nRelease' = IF acq = "true" THEN 1 ELSE 0
            /\ acq = "true" => lop'.op = "release" /\ lop'.key = lkey
            /\ acq = "false" => lop' = lop /\ res' = res
       /\ (lpc # "body" /\ acq' = "raised") =>
            nRelease' = 0 /\ lpc' # "body"]_vars

\* C13 witness: a scope whose acquisition returned true was left by an
\* exception of its body, with one release call.
C13_Witness ==
    lpc = "left_exc" /\ acq = "true" /\ nRelease = 1 /\ lop.op = "release"

\* C14: release(key) of a key the session does not hold returns false and
\* changes neither the lock keys nor the transaction; release(key) of a held
\* key returns true; after a release that returned true, with no key held
\* and no transaction open, the connection is reusable.
C14_ReleaseReflected ==
    [][\A k \in Keys : ReleaseStep(k) =>
         /\ res[LkConn].held[k] = 0 =>
              /\ ~lop'.ret
              /\ res'[LkConn].locks = res[LkConn].locks
              /\ res'[LkConn].held = res[LkConn].held
              /\ res'[LkConn].in_trans = res[LkConn].in_trans
         /\ res[LkConn].held[k] > 0 => lop'.ret
         /\ (lop'.ret /\ NothingHeld(res'[LkConn]) /\ ~res'[LkConn].in_trans)
              => Reusable(res'[LkConn])]_vars

\* ------------------------------------------------- transaction(conn)
\* SpecTx runs "with transaction(conn) as trans: body" on one connection,
\* res[TxConn], MaxScopes times.  tpc is the position in the generator,
\* finished is Job._finished, bodyErr the exception the body raised,
\* exitErr what the commit or rollback of the exit raised, txOut what the
\* with statement raised to its caller; nBegin, nRollback, nCommit count
\* the calls the helper made in the current scope.
TxConn == 1

InitTx ==
    /\ maxnum = 1 /\ minnum = 1
    /\ pool = <<>>
    /\ clean_counter = 0
    /\ res = [r \in ResIds |-> IF r = TxConn THEN NewConn ELSE NoObj]
    /\ lockOwner = None
    /\ found = <<>>
    /\ pc = [u \in Units |-> "idle"]
    /\ mode = [u \in Units |-> "none"]
    /\ gconn = [u \in Units |-> None]
    /\ handle = [u \in Units |-> None]
    /\ binding = [u \in Units |-> None]
    /\ raised = [u \in Units |-> "none"]
    /\ err = [u \in Units |-> "none"]
    /\ TxInit /\ ObsInit /\ LkInit /\ multi = TRUE

\* mutant of is_finished: the test of line 95 negated
is_finishedNeg == ~finished

\* Job.is_finished
is_finished == finished

\* what leaves the with statement when the body raised e and the rollback
\* of the except clause raised x ("none": returned): lines 91-93
ExcOut(e, x) == IF x # "none" THEN x ELSE e

\* transaction, lines 86-87: trans = Job(); conn.begin()
TxEnter ==
    /\ tpc = "out" /\ nScopes < MaxScopes
    /\ nScopes' = nScopes + 1
    /\ finished' = FALSE /\ bodyErr' = "none" /\ exitErr' = "none"
    /\ nRollback' = 0 /\ nCommit' = 0
    /\ \E cok \in BOOLEAN, ok \in BOOLEAN :
         LET x == Begin(res[TxConn], cok, ok)
         IN  /\ res' = [res EXCEPT ![TxConn] = x.c]
             /\ txOut' = x.e
             /\ nBegin' = IF x.e = "none" THEN 1 ELSE 0
             /\ tpc' = IF x.e = "none" THEN "body" ELSE "out"
    /\ UNCHANGED <<obsVars, lkVars, minnum, maxnum, pool, clean_counter, lockOwner, found, pc,
                   mode, gconn, handle, binding, raised, err>>

\* the body calls a method of the connection; an error leaves the scope
TxBodyCall ==
    /\ tpc = "body"
    /\ \E name \in OpNames, cok \in BOOLEAN, ok \in BOOLEAN :
         LET x == CallOn(res[TxConn], name, cok, ok)
         IN  /\ res' = [res EXCEPT ![TxConn] = x.c]
             /\ bodyErr' = x.e
             /\ tpc' = IF x.e = "none" THEN "body" ELSE "exit_exc"
    /\ UNCHANGED <<obsVars, lkVars, minnum, maxnum, pool, clean_counter, lockOwner, found, pc,
                   mode, gconn, handle, binding, raised, err, finished,
                   exitErr, txOut, nBegin, nRollback, nCommit, nScopes>>

\* the body calls trans.finish(): Job.finish
TxBodyFinish ==
    /\ tpc = "body" /\ ~finished
    /\ finished' = TRUE
    /\ UNCHANGED <<obsVars, lkVars, poolVars, tpc, bodyErr, exitErr, txOut, nBegin, nRollback,
                   nCommit, nScopes>>

\* the body raises an exception of its own
TxBodyRaise ==
    /\ tpc = "body"
    /\ bodyErr' = "AppError"
    /\ tpc' = "exit_exc"
    /\ UNCHANGED <<obsVars, lkVars, poolVars, finished, exitErr, txOut, nBegin, nRollback,
                   nCommit, nScopes>>

\* the body ends without an exception
TxBodyEnd ==
    /\ tpc = "body"
    /\ tpc' = "exit_norm"
    /\ UNCHANGED <<obsVars, lkVars, poolVars, finished, bodyErr, exitErr, txOut, nBegin,
                   nRollback, nCommit, nScopes>>

\* transaction, lines 91-93: except: conn.rollback(); raise
TxExitExc ==
    /\ tpc = "exit_exc"
    /\ nRollback' = nRollback + 1
    /\ \E cok \in BOOLEAN, ok \in BOOLEAN :
         LET x == Rollback(res[TxConn], cok, ok)
         IN  /\ res' = [res EXCEPT ![TxConn] = x.c]
             /\ exitErr' = x.e
             /\ txOut' = ExcOut(bodyErr, x.e)
    /\ tpc' = "out"
    /\ UNCHANGED <<obsVars, lkVars, minnum, maxnum, pool, clean_counter, lockOwner, found, pc,
                   mode, gconn, handle, binding, raised, err, finished,
                   bodyErr, nBegin, nCommit, nScopes>>

\* transaction, lines 95-98: commit if finished, else rollback
TxExitNorm ==
    /\ tpc = "exit_norm"
    /\ IF is_finished
       THEN /\ nCommit' = nCommit + 1 /\ nRollback' = nRollback
            /\ \E cok \in BOOLEAN, ok \in BOOLEAN :
                 LET x == Commit(res[TxConn], cok, ok)
                 IN  /\ res' = [res EXCEPT ![TxConn] = x.c]
                     /\ exitErr' = x.e /\ txOut' = x.e
       ELSE /\ nRollback' = nRollback + 1 /\ nCommit' = nCommit
            /\ \E cok \in BOOLEAN, ok \in BOOLEAN :
                 LET x == Rollback(res[TxConn], cok, ok)
                 IN  /\ res' = [res EXCEPT ![TxConn] = x.c]
                     /\ exitErr' = x.e /\ txOut' = x.e
    /\ tpc' = "out"
    /\ UNCHANGED <<obsVars, lkVars, minnum, maxnum, pool, clean_counter, lockOwner, found, pc,
                   mode, gconn, handle, binding, raised, err, finished,
                   bodyErr, nBegin, nScopes>>

NextTx ==
    \/ TxEnter
    \/ TxBodyCall
    \/ TxBodyFinish
    \/ TxBodyRaise
    \/ TxBodyEnd
    \/ TxExitExc
    \/ TxExitNorm
    \/ Tick

SpecTx == InitTx /\ [][NextTx]_vars

\* a scope whose begin() succeeded has been left
ScopeLeft == tpc = "out" /\ nBegin = 1

\* the calls the helper made on leaving the scope
ExitCalls ==
    IF bodyErr # "none" \/ ~finished
    THEN nRollback = 1 /\ nCommit = 0
    ELSE nCommit = 1 /\ nRollback = 0

\* C10 as stated: a scope left unmarked or by an exception does one rollback
\* and no commit, and the exception of the body reaches the caller; a scope
\* left normally and marked does one commit and no rollback.
C10_Original ==
    ScopeLeft => /\ ExitCalls
                 /\ bodyErr # "none" => txOut = bodyErr

\* C10 as amended: the calls are as stated; the exception of the body
\* reaches the caller when the rollback returns, and the error of the
\* rollback reaches the caller when the rollback raises.
C10_ScopedTransaction ==
    ScopeLeft => /\ ExitCalls
                 /\ (bodyErr # "none" /\ exitErr = "none") => txOut = bodyErr
                 /\ (bodyErr # "none" /\ exitErr # "none") => txOut = exitErr

\* C10 witness: a scope was left by an exception after it was marked
\* finished, and the rollback returned.
C10_Witness ==
    /\ ScopeLeft /\ finished /\ bodyErr = "AppError" /\ exitErr = "none"
    /\ nRollback = 1 /\ txOut = "AppError"

====
